---- MODULE Spec2Model ----
(***************************************************************************)
(* A model of the swaynoti notification daemon: the NotificationManager    *)
(* (registry, display order, id counter, expiry timer tasks, the UI and    *)
(* close channels), the HistoryStore table, the DndState gate with its     *)
(* scheduler, and the entry points that drive them (bus methods, control-  *)
(* socket commands, presenter events).  Every handler is one action;       *)
(* handlers run to completion.                                             *)
(***************************************************************************)
EXTENDS Integers, Sequences, FiniteSets, TLC

\* ------------------------------------------------------------------ bounds

\* Number of Notify calls in one run.
MaxNotify == 2

\* Largest minute-of-day the scheduler's clock takes (times are 0..MaxTime).
MaxTime == 2

\* Number of Notify calls in one run of OrderSpec.
MaxOrderNotify == 3

\* Largest history.max_entries a configuration of StoreSpec sets.
MaxEntriesCfg == 2

\* Number of action invocations in one run of ActionSpec.
MaxInvoke == 1

\* lines read from the observed socket connection
MaxLines == 2

\* rules in a configuration file
MaxRules == 2

\* The id counter is an AtomicU32 and wraps modulo 2^32, which is beyond the
\* integers the model checker has; the model's counter wraps modulo IdModulus.
IdModulus == 16

\* ------------------------------------------------------- program constants

\* Urgency (notification/urgency.rs)
Low == 0
Normal == 1
Critical == 2
Urgencies == {Low, Normal, Critical}

\* CloseReason (notification/manager.rs)
Expired == 1
Dismissed == 2
CloseCall == 3
Undefined == 4


\* TimeoutConfig::default (config/schema.rs)
TimeoutLow == 3000
TimeoutNormal == 5000
TimeoutCritical == 0

\* GeneralConfig::default max_visible
MaxVisible == 5

\* HistoryConfig::default max_entries
HistoryMaxEntries == 100

\* the characters of an RFC 3339 timestamp, as their code points
PLUS == 43
DOT == 46
ZERO == 48

\* chrono::Weekday has seven values, numbered from Monday
NumWeekdays == 7
Weekdays == 0 .. (NumWeekdays - 1)

SortOrders == {"NewestFirst", "OldestFirst", "UrgencyDescending"}

\* Option::None for a time (expires_at, schedule_start, schedule_end)
NoTime == -1

\* ------------------------------------------------------------------ inputs

\* expire_timeout values a client sends: server default, never, explicit
ExpireTimeouts == {-1, 0, 500}

\* (urgency, expire_timeout) pairs: an explicit timeout, which expires, and a
\* server default that never expires
NotifyInputs == {<<Normal, 500>>, <<Critical, -1>>}

\* the keys of the actions a client attaches
ActionKeys == {"default", "open"}
ActionSets == {{}, {"default"}}

\* NotificationHints: the parsed hints the daemon's logic reads
Hints == [urgency : Urgencies, transient : BOOLEAN, resident : BOOLEAN]

\* NotificationHints::default with the urgency hint set
DefaultHints(urgency) == [urgency |-> urgency, transient |-> FALSE, resident |-> FALSE]

\* ids a close, dismiss or hover request can name (live or not)
Ids == 1 .. MaxNotify

\* replaces_id values a Notify can carry
ReplacesIds == 0 .. MaxNotify

Times == 0 .. MaxTime

\* DndConfig::default: no schedule
DefaultSchedule ==
    [schedule_start |-> NoTime, schedule_end |-> NoTime, schedule_days |-> {}]

\* DndConfig snapshots: each time absent or set, on every day or on Mondays only
Schedules ==
    [schedule_start : Times \cup {NoTime}, schedule_end : Times \cup {NoTime},
     schedule_days : {{}, {0}}]

\* ------------------------------------------------------------------- state

VARIABLES
    notifications,   \* NotificationManager.notifications: id -> Notification
    display_order,   \* NotificationManager.display_order
    next_id,         \* NotificationManager.next_id
    ui_chan,         \* every UiEvent sent on ui_sender, in order
    close_chan,      \* every (id, reason) sent on close_sender, in order
    timers,          \* spawned expiry tasks still sleeping
    clock,           \* logical Utc::now(): one tick per Notify
    enabled,         \* DndState.enabled
    manual,          \* DndState.manual
    sort_order,      \* config.general.sort_order
    schedule,        \* config.dnd
    max_visible,     \* config.general.max_visible
    max_entries,     \* HistoryStore.max_entries (config.history.max_entries)
    history_store,   \* NotificationServer.history_store is Some
    history,         \* the rows of the store's notifications table, by rowid
    bus_signals,     \* every signal emitted on the session bus, in order
    notify_log,      \* observer: every completed Notify call, in order
    close_by,        \* observer: the sender of each entry of close_chan
    override,        \* observer: what the latest manual DND operation asked for
    invoke_log,      \* observer: every handled action invocation, in order
    rules,           \* config.rules
    conn_open,       \* handle_client of the observed connection is in its loop
    conn_lines,      \* the lines read from the observed connection, in order
    conn_out,        \* the response lines written to it, in order
    toggles,         \* the tasks inside DndState::toggle and its handler arm
    last_tick,       \* observer: the latest scheduler tick and the call it made
    calls,           \* the manager calls in progress, one per task
    gate_ops,        \* the DndState calls in progress
    action_chan,     \* ActionEvents sent by the presenter and not yet received
    match_log        \* observer: the latest find_matching_rule call

mgr_vars == <<notifications, display_order, next_id, ui_chan, close_chan, timers, clock>>
dnd_vars == <<enabled, manual, override, toggles, last_tick>>
cfg_vars == <<sort_order, schedule, max_visible, max_entries, history_store, rules>>
bus_vars == <<bus_signals, invoke_log>>
conn_vars == <<conn_open, conn_lines, conn_out>>
task_vars == <<calls, gate_ops, action_chan, match_log>>
vars == <<notifications, display_order, next_id, ui_chan, close_chan, timers, clock,
          enabled, manual, sort_order, schedule, max_visible, max_entries,
          history_store, history, bus_signals, notify_log, close_by, override,
          invoke_log, rules, conn_open, conn_lines, conn_out, toggles, last_tick,
          calls, gate_ops, action_chan, match_log>>

Live == DOMAIN notifications

\* the connection tasks that can be inside a toggle_dnd command at once
ToggleTasks == {1, 2}

\* the tasks that can be inside a call of the manager at once
RaceTasks == {1, 2}

\* a task with no call in progress
NoCall ==
    [op |-> "idle", pc |-> "idle", replaces_id |-> 0, id |-> 0, reason |-> 0,
     at |-> 0, flag |-> FALSE]

NoCalls == [c \in RaceTasks |-> NoCall]

\* no DndState::enable and no scheduled call in progress
NoGateOps ==
    [enable |-> [pc |-> "idle"],
     scheduled |-> [pc |-> "idle", call |-> "", manual |-> FALSE]]

NoToggles == [c \in ToggleTasks |-> [pc |-> "idle", current |-> FALSE, data |-> FALSE]]

Range(s) == { s[k] : k \in 1 .. Len(s) }

\* close_by after a close_notification(id, _) called by `sender`
sent_by(id, sender) ==
    IF id \in Live THEN Append(close_by, sender) ELSE close_by

\* --------------------------------------------------------------- DndState

is_enabled == enabled

enable ==
    /\ enabled' = TRUE
    /\ manual' = TRUE

disable ==
    /\ enabled' = FALSE
    /\ manual' = FALSE

toggle ==
    /\ enabled' = ~enabled
    /\ manual' = ~enabled

enable_scheduled ==
    IF ~manual THEN enabled' = TRUE /\ UNCHANGED manual
               ELSE UNCHANGED <<enabled, manual>>

disable_scheduled ==
    IF ~manual THEN enabled' = FALSE /\ UNCHANGED manual
               ELSE UNCHANGED <<enabled, manual>>

\* ----------------------------------------------------------- DndScheduler

\* run() returns before its loop unless both times are configured
SchedulerRuns ==
    schedule.schedule_start # NoTime /\ schedule.schedule_end # NoTime

is_scheduled_day(weekday) ==
    schedule.schedule_days = {} \/ weekday \in schedule.schedule_days

in_range(current_time) ==
    IF schedule.schedule_start <= schedule.schedule_end
    THEN current_time >= schedule.schedule_start /\ current_time < schedule.schedule_end
    ELSE current_time >= schedule.schedule_start \/ current_time < schedule.schedule_end

\* the DndState method one iteration of the loop of DndScheduler::run calls
scheduled_call(current_time, current_weekday) ==
    IF ~is_scheduled_day(current_weekday) THEN "disable_scheduled"
    ELSE IF in_range(current_time) THEN "enable_scheduled"
    ELSE "disable_scheduled"

\* one iteration of the loop of DndScheduler::run
run_tick(current_time, current_weekday) ==
    IF scheduled_call(current_time, current_weekday) = "enable_scheduled"
    THEN enable_scheduled
    ELSE disable_scheduled

\* ----------------------------------------------------------- HistoryStore

Digit(d) == ZERO + d

\* DateTime<Utc>::to_rfc3339 of the time `ms` milliseconds into the current
\* minute: the seconds on two digits, a fraction of three digits only when it
\* is not zero, then the sign of the offset.  What comes before the seconds
\* and after the sign is the same text in every timestamp and is left out.
to_rfc3339(ms) ==
    LET secs == ms \div 1000
        frac == ms % 1000
    IN <<Digit(secs \div 10), Digit(secs % 10)>>
       \o (IF frac = 0
           THEN << >>
           ELSE <<DOT, Digit(frac \div 100), Digit((frac \div 10) % 10), Digit(frac % 10)>>)
       \o <<PLUS>>

\* DateTime::parse_from_rfc3339 of such a text, in milliseconds
parse_from_rfc3339(text) ==
    LET secs == 10 * (text[1] - ZERO) + (text[2] - ZERO)
    IN IF text[3] = DOT
       THEN 1000 * secs + 100 * (text[4] - ZERO) + 10 * (text[5] - ZERO) + (text[6] - ZERO)
       ELSE 1000 * secs

\* the order of two TEXT values in the database: byte by byte, a proper prefix
\* first
RECURSIVE text_less(_, _)
text_less(a, b) ==
    IF a = << >> THEN b # << >>
    ELSE IF b = << >> THEN FALSE
    ELSE IF Head(a) # Head(b) THEN Head(a) < Head(b)
    ELSE text_less(Tail(a), Tail(b))

\* the row `add` inserts for a HistoryEntry
HistoryEntry(id, timestamp) ==
    [notification_id |-> id, timestamp |-> to_rfc3339(timestamp),
     dismissed |-> FALSE, expired |-> FALSE]

\* the rows of `rows` at the positions K, in their order
Keep(rows, K) ==
    LET F[i \in 0 .. Len(rows)] ==
            IF i = 0 THEN << >>
            ELSE IF i \in K THEN Append(F[i - 1], rows[i]) ELSE F[i - 1]
    IN F[Len(rows)]

\* fault variant of order_by_timestamp_desc: the oldest rows come first
order_by_timestamp_asc(rows, limit) ==
    LET n == IF Len(rows) < limit THEN Len(rows) ELSE limit
    IN { K \in SUBSET (1 .. Len(rows)) :
           /\ Cardinality(K) = n
           /\ \A k \in K, j \in (1 .. Len(rows)) \ K :
                 ~text_less(rows[j].timestamp, rows[k].timestamp) }

\* SELECT id FROM notifications ORDER BY timestamp DESC LIMIT limit: every set
\* of rows the query can return (rows of equal timestamp come in any order)
order_by_timestamp_desc(rows, limit) ==
    LET n == IF Len(rows) < limit THEN Len(rows) ELSE limit
    IN { K \in SUBSET (1 .. Len(rows)) :
           /\ Cardinality(K) = n
           /\ \A k \in K, j \in (1 .. Len(rows)) \ K :
                 ~text_less(rows[k].timestamp, rows[j].timestamp) }

\* fault variant of cleanup: one row more than max_entries is kept
cleanup_off_by_one(rows) ==
    { Keep(rows, K) : K \in order_by_timestamp_desc(rows, max_entries + 1) }

\* the tables cleanup can leave
cleanup(rows) ==
    { Keep(rows, K) : K \in order_by_timestamp_desc(rows, max_entries) }

\* HistoryStore::add: INSERT, then cleanup
add(entry) ==
    history' \in cleanup(Append(history, entry))

mark_dismissed(notification_id) ==
    history' = [k \in 1 .. Len(history) |->
                  IF history[k].notification_id = notification_id
                  THEN [history[k] EXCEPT !.dismissed = TRUE]
                  ELSE history[k]]

mark_expired(notification_id) ==
    history' = [k \in 1 .. Len(history) |->
                  IF history[k].notification_id = notification_id
                  THEN [history[k] EXCEPT !.expired = TRUE]
                  ELSE history[k]]

\* HistoryStore::count
store_count == Len(history)

\* ------------------------------------------------------------------ rules

\* str::to_lowercase on the urgency names a rule can carry
to_lowercase(text) ==
    CASE text \in {"Low", "LOW"} -> "low"
      [] text \in {"Normal", "NORMAL"} -> "normal"
      [] text \in {"Critical", "CRITICAL"} -> "critical"
      [] OTHER -> text

\* The text of a pattern or of a field is a sequence of characters.
\* Regex::new: Ok(regex) or Err.  Letters compile to the regex that searches
\* for them; "[" opens a character class, and a class that is never closed
\* does not compile.
Regex_new(pattern) ==
    IF \E k \in 1 .. Len(pattern) :
           pattern[k] = "[" /\ \A j \in k + 1 .. Len(pattern) : pattern[j] # "]"
    THEN << >>
    ELSE <<pattern>>

\* Regex::is_match of a regex of letters: the letters occur somewhere in value
is_match(regex, value) ==
    \E k \in 0 .. Len(value) - Len(regex) :
        SubSeq(value, k + 1, k + Len(regex)) = regex

\* RuleMatcher::matches_pattern: the pattern as a regex, or, if it does not
\* compile, as the exact text
matches_pattern(pattern, value) ==
    IF Regex_new(pattern) # << >>
    THEN is_match(Regex_new(pattern)[1], value)
    ELSE pattern = value

\* the fields of a Notification the matcher reads
Notification(app_name, summary, body, urgency, category) ==
    [app_name |-> app_name, summary |-> summary, body |-> body,
     urgency |-> urgency, category |-> category]

\* fault variant of matches: a category criterion lets a notification
\* without a category through
matches_category_optional(criteria, notification) ==
    /\ criteria.app_name # << >> =>
           matches_pattern(criteria.app_name[1], notification.app_name)
    /\ criteria.summary # << >> =>
           matches_pattern(criteria.summary[1], notification.summary)
    /\ criteria.body # << >> =>
           matches_pattern(criteria.body[1], notification.body)
    /\ criteria.urgency # << >> =>
           CASE to_lowercase(criteria.urgency[1]) = "low" -> notification.urgency = Low
             [] to_lowercase(criteria.urgency[1]) = "normal" -> notification.urgency = Normal
             [] to_lowercase(criteria.urgency[1]) = "critical" -> notification.urgency = Critical
             [] OTHER -> TRUE
    /\ (criteria.category # << >> /\ notification.category # << >>) =>
           matches_pattern(criteria.category[1], notification.category[1])

\* RuleMatcher::matches: every criterion that is Some must accept
matches(criteria, notification) ==
    /\ criteria.app_name # << >> =>
           matches_pattern(criteria.app_name[1], notification.app_name)
    /\ criteria.summary # << >> =>
           matches_pattern(criteria.summary[1], notification.summary)
    /\ criteria.body # << >> =>
           matches_pattern(criteria.body[1], notification.body)
    /\ criteria.urgency # << >> =>
           CASE to_lowercase(criteria.urgency[1]) = "low" -> notification.urgency = Low
             [] to_lowercase(criteria.urgency[1]) = "normal" -> notification.urgency = Normal
             [] to_lowercase(criteria.urgency[1]) = "critical" -> notification.urgency = Critical
             [] OTHER -> TRUE
    /\ criteria.category # << >> =>
           /\ notification.category # << >>
           /\ matches_pattern(criteria.category[1], notification.category[1])

\* RuleMatcher::find_matching_rule: Some(first rule that matches) or None
find_matching_rule(notification, rule_list) ==
    LET hits == { k \in 1 .. Len(rule_list) : matches(rule_list[k].criteria, notification) }
    IN IF hits = {} THEN << >>
       ELSE <<rule_list[CHOOSE k \in hits : \A j \in hits : k <= j]>>

\* apply_rule_actions: the notification's expire_timeout and urgency afterwards
apply_rule_actions(expire_timeout, urgency, actions) ==
    [expire_timeout |-> IF actions.timeout # << >> THEN actions.timeout[1]
                                                  ELSE expire_timeout,
     urgency |-> IF actions.urgency # << >>
                 THEN CASE to_lowercase(actions.urgency[1]) = "low" -> Low
                        [] to_lowercase(actions.urgency[1]) = "normal" -> Normal
                        [] to_lowercase(actions.urgency[1]) = "critical" -> Critical
                        [] OTHER -> urgency
                 ELSE urgency]

\* ---------------------------------------------------- NotificationManager

count == Cardinality(Live)

\* generate_id hands out the counter's value ...
generate_id == next_id

\* fault variant of fetch_add: a load, the counter never moves
fetch_add_load(counter) == counter

\* ... and fetch_add(1) leaves the counter one higher, wrapping
fetch_add(counter) == (counter + 1) % IdModulus

\* fault variant of calculate_timeout: a positive expire_timeout is ignored
calculate_timeout_default_only(expire_timeout, urgency) ==
    IF expire_timeout = 0 THEN 0
    ELSE CASE urgency = Low -> TimeoutLow
           [] urgency = Normal -> TimeoutNormal
           [] urgency = Critical -> TimeoutCritical

calculate_timeout(expire_timeout, urgency) ==
    IF expire_timeout = 0 THEN 0
    ELSE IF expire_timeout > 0 THEN expire_timeout
    ELSE CASE urgency = Low -> TimeoutLow
           [] urgency = Normal -> TimeoutNormal
           [] urgency = Critical -> TimeoutCritical

\* fault variant of resolve_id: replaces_id ignored, every Notify allocates
resolve_id_always_fresh(replaces_id) == generate_id

\* the id add_notification gives the notification
resolve_id(replaces_id) ==
    IF replaces_id > 0
    THEN IF replaces_id \in Live THEN replaces_id ELSE generate_id
    ELSE generate_id

InsertAt(s, pos, x) == SubSeq(s, 1, pos - 1) \o <<x>> \o SubSeq(s, pos, Len(s))

\* fault variant of urgency_position: the new id also goes before the ids of
\* its own urgency
urgency_position_before_equal(order, reg, urgency) ==
    LET hits == { p \in 1 .. Len(order) :
                    IF order[p] \in DOMAIN reg
                    THEN urgency >= reg[order[p]].urgency
                    ELSE TRUE }
    IN IF hits = {} THEN Len(order) + 1
       ELSE CHOOSE p \in hits : \A q \in hits : p <= q

\* where UrgencyDescending puts a new id: before the first listed id whose
\* notification has lower urgency (or is missing from `reg`), else at the end
urgency_position(order, reg, urgency) ==
    LET hits == { p \in 1 .. Len(order) :
                    IF order[p] \in DOMAIN reg
                    THEN urgency > reg[order[p]].urgency
                    ELSE TRUE }
    IN IF hits = {} THEN Len(order) + 1
       ELSE CHOOSE p \in hits : \A q \in hits : p <= q

insert_order(order, reg, id, urgency) ==
    CASE sort_order = "NewestFirst" -> <<id>> \o order
      [] sort_order = "OldestFirst" -> Append(order, id)
      [] sort_order = "UrgencyDescending" ->
            InsertAt(order, urgency_position(order, reg, urgency), id)

\* fault variant of schedule_expiration: no expiry task is spawned while DND
\* is on, whatever the urgency
schedule_expiration_gated(id, timeout_ms) ==
    IF is_enabled
    THEN UNCHANGED timers
    ELSE timers' = timers \cup {[id |-> id, at |-> clock, timeout_ms |-> timeout_ms]}

\* tokio::spawn of the sleeping expiry task
schedule_expiration(id, timeout_ms) ==
    timers' = timers \cup {[id |-> id, at |-> clock, timeout_ms |-> timeout_ms]}

\* UiEvent, as the presenter receives it
Show(notification) == [type |-> "Show", id |-> notification.id, n |-> notification]

\* fault variant of Update: a replacement is announced as a new notification
Update_as_Show(id, notification) == [type |-> "Show", id |-> id, n |-> notification]

Update(id, notification) == [type |-> "Update", id |-> id, n |-> notification]

Close(id) == [type |-> "Close", id |-> id]

\* the arguments are the fields of the Notification that Notify built
add_notification(replaces_id, actions, hints, expire_timeout) ==
    LET id == resolve_id(replaces_id)
        urgency == hints.urgency
        timeout == calculate_timeout(expire_timeout, urgency)
        notification ==
            [id |-> id, actions |-> actions, urgency |-> urgency,
             transient |-> hints.transient, resident |-> hints.resident,
             expire_timeout |-> expire_timeout,
             expires_at |-> IF timeout > 0 THEN clock + timeout ELSE NoTime,
             created_at |-> clock, is_hovered |-> FALSE]
        is_replacement == id \in Live
        reg == [i \in Live \cup {id} |-> IF i = id THEN notification ELSE notifications[i]]
    IN /\ next_id' = IF replaces_id > 0 /\ replaces_id \in Live
                     THEN next_id ELSE fetch_add(next_id)
       /\ notifications' = reg
       /\ IF is_replacement
          THEN /\ ui_chan' = Append(ui_chan, Update(id, notification))
               /\ UNCHANGED display_order
          ELSE /\ display_order' = insert_order(display_order, reg, id, urgency)
               /\ ui_chan' = Append(ui_chan, Show(notification))
       /\ IF timeout > 0 THEN schedule_expiration(id, timeout) ELSE UNCHANGED timers
       /\ clock' = clock + 1
       /\ UNCHANGED close_chan

\* the body of the task spawned by schedule_expiration, after its sleep
expiration_task(t) ==
    /\ timers' = timers \ {t}
    /\ ui_chan' = Append(ui_chan, Close(t.id))
    /\ close_chan' = Append(close_chan, <<t.id, Expired>>)
    /\ UNCHANGED <<notifications, display_order, next_id, clock>>

\* fault variant of close_notification: the events are sent without the test
\* that the id is in the registry
close_notification_unchecked(id, reason) ==
    /\ notifications' = [i \in Live \ {id} |-> notifications[i]]
    /\ display_order' = SelectSeq(display_order, LAMBDA x : x # id)
    /\ ui_chan' = Append(ui_chan, Close(id))
    /\ close_chan' = Append(close_chan, <<id, reason>>)
    /\ UNCHANGED <<next_id, timers, clock>>

close_notification(id, reason) ==
    IF id \in Live
    THEN /\ notifications' = [i \in Live \ {id} |-> notifications[i]]
         /\ display_order' = SelectSeq(display_order, LAMBDA x : x # id)
         /\ ui_chan' = Append(ui_chan, Close(id))
         /\ close_chan' = Append(close_chan, <<id, reason>>)
         /\ UNCHANGED <<next_id, timers, clock>>
    ELSE UNCHANGED mgr_vars

\* NotificationManager::dismiss_all: close_notification(id, Dismissed) for
\* every live id, in display order.  The manager holds the registry, the
\* display order and the two senders, and nothing of the history store.
dismiss_all ==
    /\ notifications' = << >>
    /\ display_order' = << >>
    /\ ui_chan' = ui_chan \o [k \in 1 .. Len(display_order) |-> Close(display_order[k])]
    /\ close_chan' = close_chan \o
           [k \in 1 .. Len(display_order) |-> <<display_order[k], Dismissed>>]
    /\ UNCHANGED <<next_id, timers, clock>>

Take(s, n) == SubSeq(s, 1, IF Len(s) < n THEN Len(s) ELSE n)

\* fault variant of get_visible_notifications: the whole display order
get_visible_notifications_untruncated ==
    LET found == SelectSeq(display_order, LAMBDA id : id \in Live)
    IN [k \in 1 .. Len(found) |-> notifications[found[k]]]

get_visible_notifications ==
    LET firsts == Take(display_order, max_visible)
        found == SelectSeq(firsts, LAMBDA id : id \in Live)
    IN [k \in 1 .. Len(found) |-> notifications[found[k]]]

\* the test invoke_action makes: the id is live and has an action of that key
action_exists(id, action_key) ==
    id \in Live /\ action_key \in notifications[id].actions

\* NotificationManager::invoke_action: a hit is written to the log, nothing else
invoke_action(id, action_key) ==
    UNCHANGED mgr_vars

set_hovered(id, hovered) ==
    /\ notifications' =
         IF id \in Live
         THEN [notifications EXCEPT ![id].is_hovered = hovered]
         ELSE notifications
    /\ UNCHANGED <<display_order, next_id, ui_chan, close_chan, timers, clock>>

\* ------------------------------------------------------ NotificationServer

\* the signals the bus interface declares
NotificationClosed(id, reason) ==
    [type |-> "NotificationClosed", id |-> id, reason |-> reason]

ActionInvoked(id, action_key) ==
    [type |-> "ActionInvoked", id |-> id, action_key |-> action_key]

\* ------------------------------------------------------------ entry points

\* fault variant of persists: the transient hint is ignored
persists_always(hints) == TRUE

\* Notify's test before it saves to the history
persists(hints) == ~hints.transient

\* bus method Notify
notify(replaces_id, actions, hints, expire_timeout) ==
    /\ add_notification(replaces_id, actions, hints, expire_timeout)
    /\ IF persists(hints) /\ history_store
       THEN add(HistoryEntry(resolve_id(replaces_id), clock))
       ELSE UNCHANGED history
    /\ notify_log' = Append(notify_log,
            [id |-> resolve_id(replaces_id),
             fresh |-> ~(replaces_id > 0 /\ replaces_id \in Live),
             urgency |-> hints.urgency,
             transient |-> hints.transient,
             timeout |-> calculate_timeout(expire_timeout, hints.urgency),
             live_before |-> Live,
             dnd |-> is_enabled])
    /\ UNCHANGED <<dnd_vars, cfg_vars, task_vars, conn_vars, bus_vars, close_by>>

\* fault variant of bus_close_notification: it reports a user dismissal
bus_close_notification_dismissed(id) ==
    /\ close_notification(id, Dismissed)
    /\ close_by' = sent_by(id, "CloseNotification")
    /\ UNCHANGED <<dnd_vars, cfg_vars, task_vars, conn_vars, bus_vars, history, notify_log>>

\* bus method CloseNotification
bus_close_notification(id) ==
    /\ close_notification(id, CloseCall)
    /\ close_by' = sent_by(id, "CloseNotification")
    /\ UNCHANGED <<dnd_vars, cfg_vars, task_vars, conn_vars, bus_vars, history, notify_log>>

\* IpcHandler::handle, arm IpcCommand::Dismiss
handle_Dismiss(id) ==
    /\ close_notification(id, Dismissed)
    /\ close_by' = sent_by(id, "IpcDismiss")
    /\ UNCHANGED <<dnd_vars, cfg_vars, task_vars, bus_vars, history, notify_log>>

\* IpcHandler::handle, arm IpcCommand::DismissAll
handle_DismissAll ==
    /\ dismiss_all
    /\ close_by' = close_by \o [k \in 1 .. Len(display_order) |-> "IpcDismissAll"]
    /\ UNCHANGED <<dnd_vars, cfg_vars, task_vars, bus_vars, history, notify_log>>

\* presenter: ActionEvent::Dismissed
action_dismissed(id) ==
    /\ IF history_store THEN mark_dismissed(id) ELSE UNCHANGED history
    /\ close_notification(id, Dismissed)
    /\ close_by' = sent_by(id, "Dismissed")
    /\ UNCHANGED <<dnd_vars, cfg_vars, task_vars, conn_vars, bus_vars, notify_log>>

\* presenter: ActionEvent::ActionInvoked
action_invoked(id, action_key) ==
    /\ invoke_action(id, action_key)
    /\ invoke_log' = Append(invoke_log,
            [id |-> id, action_key |-> action_key, sender |-> "ActionInvoked",
             exists |-> action_exists(id, action_key),
             resident |-> id \in Live /\ notifications[id].resident])
    /\ UNCHANGED <<dnd_vars, cfg_vars, task_vars, conn_vars, bus_signals, history, notify_log, close_by>>

\* IpcHandler::handle, arm IpcCommand::InvokeAction
handle_InvokeAction(id, action) ==
    /\ invoke_action(id, action)
    /\ invoke_log' = Append(invoke_log,
            [id |-> id, action_key |-> action, sender |-> "IpcInvokeAction",
             exists |-> action_exists(id, action),
             resident |-> id \in Live /\ notifications[id].resident])
    /\ UNCHANGED <<dnd_vars, cfg_vars, task_vars, bus_signals, history, notify_log, close_by>>

\* presenter: ActionEvent::Hovered
action_hovered(id) ==
    /\ set_hovered(id, TRUE)
    /\ UNCHANGED <<dnd_vars, cfg_vars, task_vars, conn_vars, bus_vars, history, notify_log, close_by>>

\* presenter: ActionEvent::Unhovered
action_unhovered(id) ==
    /\ set_hovered(id, FALSE)
    /\ UNCHANGED <<dnd_vars, cfg_vars, task_vars, conn_vars, bus_vars, history, notify_log, close_by>>

\* the Notification Notify builds for the calls below: normal urgency, no
\* actions, persisted, never expiring
Built(id, at) ==
    [id |-> id, actions |-> {}, urgency |-> Normal, transient |-> FALSE,
     resident |-> FALSE, expire_timeout |-> 0, expires_at |-> NoTime,
     created_at |-> at, is_hovered |-> FALSE]

\* Notify as a task of the runtime runs it.  First step of add_notification:
\* the registry is read-locked for the test on replaces_id and the id is
\* taken from it or from the counter; the lock is released.
add_resolve(c, replaces_id) ==
    /\ calls[c] = NoCall
    /\ calls' = [calls EXCEPT ![c] =
           [op |-> "add", pc |-> "resolved", replaces_id |-> replaces_id,
            id |-> resolve_id(replaces_id), reason |-> 0, at |-> clock,
            flag |-> FALSE]]
    /\ next_id' = IF replaces_id > 0 /\ replaces_id \in Live
                  THEN next_id ELSE fetch_add(next_id)
    /\ clock' = clock + 1
    /\ UNCHANGED <<notifications, display_order, ui_chan, close_chan, timers>>
    /\ UNCHANGED <<dnd_vars, cfg_vars, conn_vars, bus_vars, history, notify_log,
                   close_by, gate_ops, action_chan, match_log>>

\* second step: the registry is write-locked, is_replacement is read and the
\* notification inserted
add_insert(c) ==
    /\ calls[c].op = "add" /\ calls[c].pc = "resolved"
    /\ calls' = [calls EXCEPT ![c].pc = "inserted", ![c].flag = calls[c].id \in Live]
    /\ notifications' =
          [i \in Live \cup {calls[c].id} |->
              IF i = calls[c].id THEN Built(calls[c].id, calls[c].at)
                                 ELSE notifications[i]]
    /\ UNCHANGED <<display_order, next_id, ui_chan, close_chan, timers, clock>>
    /\ UNCHANGED <<dnd_vars, cfg_vars, conn_vars, bus_vars, history, notify_log,
                   close_by, gate_ops, action_chan, match_log>>

\* last step: Update is sent for a replacement; otherwise the id is put into
\* the display order and Show is sent.  add_notification returns and Notify
\* saves the notification to the history.
add_publish(c) ==
    LET id == calls[c].id
        notification == Built(id, calls[c].at)
    IN /\ calls[c].op = "add" /\ calls[c].pc = "inserted"
       /\ calls' = [calls EXCEPT ![c] = NoCall]
       /\ IF calls[c].flag
          THEN /\ ui_chan' = Append(ui_chan, Update(id, notification))
               /\ UNCHANGED display_order
          ELSE /\ display_order' = insert_order(display_order, notifications, id, Normal)
               /\ ui_chan' = Append(ui_chan, Show(notification))
       /\ IF history_store THEN add(HistoryEntry(id, calls[c].at)) ELSE UNCHANGED history
       /\ notify_log' = Append(notify_log,
               [id |-> id, fresh |-> id # calls[c].replaces_id, urgency |-> Normal,
                transient |-> FALSE, timeout |-> 0, live_before |-> Live \ {id},
                dnd |-> is_enabled])
       /\ UNCHANGED <<notifications, next_id, close_chan, timers, clock>>
       /\ UNCHANGED <<dnd_vars, cfg_vars, conn_vars, bus_vars, close_by, gate_ops,
                      action_chan, match_log>>

\* fault variant of close_remove: the call goes on as if an entry had been
\* removed, whether or not there was one
close_remove_unchecked(c, id, reason) ==
    /\ calls[c] = NoCall
    /\ calls' = [calls EXCEPT ![c] =
           [op |-> "close", pc |-> "removed", replaces_id |-> 0, id |-> id,
            reason |-> reason, at |-> 0, flag |-> TRUE]]
    /\ notifications' = [i \in Live \ {id} |-> notifications[i]]
    /\ UNCHANGED <<display_order, next_id, ui_chan, close_chan, timers, clock>>
    /\ UNCHANGED <<dnd_vars, cfg_vars, conn_vars, bus_vars, history, notify_log,
                   close_by, gate_ops, action_chan, match_log>>

\* close_notification as a task of the runtime runs it.  First step: the
\* registry is write-locked and the entry removed; `existed` tells if there
\* was one.
close_remove(c, id, reason) ==
    /\ calls[c] = NoCall
    /\ calls' = [calls EXCEPT ![c] =
           [op |-> "close", pc |-> "removed", replaces_id |-> 0, id |-> id,
            reason |-> reason, at |-> 0, flag |-> id \in Live]]
    /\ notifications' = [i \in Live \ {id} |-> notifications[i]]
    /\ UNCHANGED <<display_order, next_id, ui_chan, close_chan, timers, clock>>
    /\ UNCHANGED <<dnd_vars, cfg_vars, conn_vars, bus_vars, history, notify_log,
                   close_by, gate_ops, action_chan, match_log>>

\* second step, if an entry was removed: the id is taken out of the display
\* order, Close and the close signal are sent
close_publish(c) ==
    /\ calls[c].op = "close" /\ calls[c].pc = "removed"
    /\ calls' = [calls EXCEPT ![c] = NoCall]
    /\ IF calls[c].flag
       THEN /\ display_order' = SelectSeq(display_order, LAMBDA x : x # calls[c].id)
            /\ ui_chan' = Append(ui_chan, Close(calls[c].id))
            /\ close_chan' = Append(close_chan, <<calls[c].id, calls[c].reason>>)
            /\ close_by' = Append(close_by,
                   IF calls[c].reason = Dismissed THEN "IpcDismiss"
                                                  ELSE "CloseNotification")
       ELSE UNCHANGED <<display_order, ui_chan, close_chan, close_by>>
    /\ UNCHANGED <<notifications, next_id, timers, clock>>
    /\ UNCHANGED <<dnd_vars, cfg_vars, conn_vars, bus_vars, history, notify_log,
                   gate_ops, action_chan, match_log>>

\* ActionEvent, as the presenter sends it
FocusApp(id) == [type |-> "FocusApp", id |-> id]

DefaultAction(id) == [type |-> "DefaultAction", id |-> id]

\* presenter: a primary click released on the popup of a notification
click_released(id) ==
    /\ id \in Live
    /\ action_chan' = action_chan \o <<FocusApp(id), DefaultAction(id)>>
    /\ UNCHANGED <<mgr_vars, dnd_vars, cfg_vars, conn_vars, bus_vars, history,
                   notify_log, close_by, calls, gate_ops, match_log>>

\* the action event loop receives ActionEvent::FocusApp
action_focus_app ==
    /\ action_chan # << >>
    /\ Head(action_chan).type = "FocusApp"
    /\ close_notification(Head(action_chan).id, Dismissed)
    /\ close_by' = sent_by(Head(action_chan).id, "FocusApp")
    /\ action_chan' = Tail(action_chan)
    /\ UNCHANGED <<dnd_vars, cfg_vars, conn_vars, bus_vars, history, notify_log,
                   calls, gate_ops, match_log>>

\* the action event loop receives ActionEvent::DefaultAction
action_default_action ==
    /\ action_chan # << >>
    /\ Head(action_chan).type = "DefaultAction"
    /\ invoke_action(Head(action_chan).id, "default")
    /\ invoke_log' = Append(invoke_log,
            [id |-> Head(action_chan).id, action_key |-> "default",
             sender |-> "DefaultAction",
             exists |-> action_exists(Head(action_chan).id, "default"),
             resident |-> Head(action_chan).id \in Live
                          /\ notifications[Head(action_chan).id].resident])
    /\ action_chan' = Tail(action_chan)
    /\ UNCHANGED <<dnd_vars, cfg_vars, conn_vars, bus_signals, history, notify_log,
                   close_by, calls, gate_ops, match_log>>

\* an expiry task wakes up
timer_expiry(t) ==
    /\ expiration_task(t)
    /\ close_by' = Append(close_by, "Timer")
    /\ UNCHANGED <<dnd_vars, cfg_vars, task_vars, conn_vars, bus_vars, history, notify_log>>

\* IpcHandler::handle, arm IpcCommand::EnableDnd
handle_EnableDnd ==
    /\ enable
    /\ override' = "on"
    /\ UNCHANGED <<mgr_vars, cfg_vars, task_vars, bus_vars, history, notify_log, close_by,
                   toggles, last_tick>>

\* IpcHandler::handle, arm IpcCommand::DisableDnd
handle_DisableDnd ==
    /\ disable
    /\ override' = "off"
    /\ UNCHANGED <<mgr_vars, cfg_vars, task_vars, bus_vars, history, notify_log, close_by,
                   toggles, last_tick>>

\* IpcHandler::handle, arm IpcCommand::ToggleDnd, when no other task runs
\* between its first load and its last
handle_ToggleDnd ==
    /\ toggle
    /\ override' = IF enabled THEN "off" ELSE "on"
    /\ UNCHANGED <<mgr_vars, cfg_vars, task_vars, bus_vars, history, notify_log, close_by,
                   toggles, last_tick>>

\* IpcHandler::handle, arm IpcCommand::GetDndStatus
handle_GetDndStatus ==
    UNCHANGED <<mgr_vars, dnd_vars, cfg_vars, task_vars, bus_vars, history, notify_log, close_by>>

\* IpcCommand, as serde reads it from a line
Command(type, id, action) == [type |-> type, id |-> id, action |-> action]

\* serde_json::to_value of a bool
to_value(b) == IF b THEN "true" ELSE "false"

\* IpcResponse: an Option is the empty sequence or a sequence of one value
success == [success |-> TRUE, data |-> << >>, error |-> << >>]

with_data(data) == [success |-> TRUE, data |-> <<to_value(data)>>, error |-> << >>]

error(message) == [success |-> FALSE, data |-> << >>, error |-> <<message>>]

\* IpcHandler::handle: what the command does ...
handle(command) ==
    CASE command.type = "Dismiss" -> handle_Dismiss(command.id)
      [] command.type = "DismissAll" -> handle_DismissAll
      [] command.type = "ToggleDnd" -> handle_ToggleDnd
      [] command.type = "EnableDnd" -> handle_EnableDnd
      [] command.type = "DisableDnd" -> handle_DisableDnd
      [] command.type = "GetDndStatus" -> handle_GetDndStatus
      [] command.type = "InvokeAction" -> handle_InvokeAction(command.id, command.action)

\* ... and the IpcResponse it returns
response(command) ==
    CASE command.type = "Dismiss" -> success
      [] command.type = "DismissAll" -> success
      [] command.type = "ToggleDnd" -> with_data(~enabled)
      [] command.type = "EnableDnd" -> success
      [] command.type = "DisableDnd" -> success
      [] command.type = "GetDndStatus" -> with_data(is_enabled)
      [] command.type = "InvokeAction" -> success

\* a line of the socket: whether its bytes are UTF-8, and what
\* serde_json::from_str makes of it, Ok(command) or Err
Line(utf8, parsed) == [utf8 |-> utf8, parsed |-> parsed]

from_str(line) == line.parsed

\* one iteration of the loop of handle_client: read_line, then the response
\* is worked out and written.  read_line fails on bytes that are not UTF-8 and
\* the `?` leaves the function: the connection is dropped.
handle_client(line) ==
    /\ conn_open
    /\ conn_lines' = Append(conn_lines, line)
    /\ IF ~line.utf8
       THEN /\ conn_open' = FALSE
            /\ UNCHANGED conn_out
            /\ UNCHANGED <<mgr_vars, dnd_vars, cfg_vars, task_vars, bus_vars, history,
                           notify_log, close_by>>
       ELSE /\ UNCHANGED conn_open
            /\ IF from_str(line) # << >>
               THEN /\ handle(from_str(line)[1])
                    /\ conn_out' = Append(conn_out, response(from_str(line)[1]))
               ELSE /\ conn_out' = Append(conn_out, error("Invalid command"))
                    /\ UNCHANGED <<mgr_vars, dnd_vars, cfg_vars, task_vars, bus_vars, history,
                                   notify_log, close_by>>

\* control socket: a command on a connection other than the observed one
ipc_dismiss(id) ==
    handle_Dismiss(id) /\ UNCHANGED conn_vars

ipc_invoke_action(id, action) ==
    handle_InvokeAction(id, action) /\ UNCHANGED conn_vars

ipc_enable_dnd ==
    handle_EnableDnd /\ UNCHANGED conn_vars

ipc_disable_dnd ==
    handle_DisableDnd /\ UNCHANGED conn_vars

ipc_toggle_dnd ==
    handle_ToggleDnd /\ UNCHANGED conn_vars

\* The ToggleDnd arm as the runtime's worker threads run it: DndState::toggle
\* is a load and two stores, and the arm then loads again for its response.
\* Task c is the connection task the command arrived on.
toggle_load(c) ==
    /\ toggles[c].pc = "idle"
    /\ toggles' = [toggles EXCEPT ![c].pc = "loaded", ![c].current = enabled]
    /\ UNCHANGED <<mgr_vars, cfg_vars, task_vars, conn_vars, bus_vars, history, notify_log,
                   close_by, enabled, manual, override, last_tick>>

toggle_store_enabled(c) ==
    /\ toggles[c].pc = "loaded"
    /\ enabled' = ~toggles[c].current
    /\ toggles' = [toggles EXCEPT ![c].pc = "stored"]
    /\ UNCHANGED <<mgr_vars, cfg_vars, task_vars, conn_vars, bus_vars, history, notify_log,
                   close_by, manual, override, last_tick>>

toggle_store_manual(c) ==
    /\ toggles[c].pc = "stored"
    /\ manual' = ~toggles[c].current
    /\ override' = IF toggles[c].current THEN "off" ELSE "on"
    /\ toggles' = [toggles EXCEPT ![c].pc = "toggled"]
    /\ UNCHANGED <<mgr_vars, cfg_vars, task_vars, conn_vars, bus_vars, history, notify_log,
                   close_by, enabled, last_tick>>

\* IpcResponse::with_data(self.dnd_state.is_enabled())
toggle_respond(c) ==
    /\ toggles[c].pc = "toggled"
    /\ toggles' = [toggles EXCEPT ![c].pc = "answered", ![c].data = is_enabled]
    /\ UNCHANGED <<mgr_vars, cfg_vars, task_vars, conn_vars, bus_vars, history, notify_log,
                   close_by, enabled, manual, override, last_tick>>

\* DndState::enable as a worker thread runs it: two stores
enable_store_enabled ==
    /\ gate_ops.enable.pc = "idle"
    /\ enabled' = TRUE
    /\ gate_ops' = [gate_ops EXCEPT !.enable.pc = "stored"]
    /\ UNCHANGED <<mgr_vars, cfg_vars, conn_vars, bus_vars, history, notify_log,
                   close_by, manual, override, toggles, last_tick, calls,
                   action_chan, match_log>>

enable_store_manual ==
    /\ gate_ops.enable.pc = "stored"
    /\ manual' = TRUE
    /\ override' = "on"
    /\ gate_ops' = [gate_ops EXCEPT !.enable.pc = "done"]
    /\ UNCHANGED <<mgr_vars, cfg_vars, conn_vars, bus_vars, history, notify_log,
                   close_by, enabled, toggles, last_tick, calls, action_chan,
                   match_log>>

\* enable_scheduled / disable_scheduled as the scheduler's task runs them: the
\* load of `manual` that opens the call the tick chose ...
scheduled_load(current_time, current_weekday) ==
    /\ SchedulerRuns
    /\ gate_ops.scheduled.pc = "idle"
    /\ gate_ops' = [gate_ops EXCEPT !.scheduled =
           [pc |-> "loaded",
            call |-> scheduled_call(current_time, current_weekday),
            manual |-> manual]]
    /\ last_tick' = <<[current_time |-> current_time,
                       current_weekday |-> current_weekday,
                       call |-> scheduled_call(current_time, current_weekday)]>>
    /\ UNCHANGED <<mgr_vars, cfg_vars, conn_vars, bus_vars, history, notify_log,
                   close_by, enabled, manual, override, toggles, calls,
                   action_chan, match_log>>

\* ... and the store to `enabled` it makes if the loaded value was false
scheduled_store ==
    /\ gate_ops.scheduled.pc = "loaded"
    /\ IF ~gate_ops.scheduled.manual
       THEN enabled' = (gate_ops.scheduled.call = "enable_scheduled")
       ELSE UNCHANGED enabled
    /\ gate_ops' = [gate_ops EXCEPT !.scheduled.pc = "done"]
    /\ UNCHANGED <<mgr_vars, cfg_vars, conn_vars, bus_vars, history, notify_log,
                   close_by, manual, override, toggles, last_tick, calls,
                   action_chan, match_log>>

\* the scheduler's interval fires
scheduler_tick(current_time, current_weekday) ==
    /\ SchedulerRuns
    /\ run_tick(current_time, current_weekday)
    /\ last_tick' = <<[current_time |-> current_time,
                       current_weekday |-> current_weekday,
                       call |-> scheduled_call(current_time, current_weekday)]>>
    /\ UNCHANGED <<mgr_vars, cfg_vars, task_vars, conn_vars, bus_vars, history, notify_log,
                   close_by, override, toggles>>

\* ----------------------------------------------------------- specification

Init ==
    /\ notifications = << >>
    /\ display_order = << >>
    /\ next_id = 1
    /\ ui_chan = << >>
    /\ close_chan = << >>
    /\ timers = {}
    /\ clock = 0
    /\ enabled = FALSE
    /\ manual = FALSE
    /\ sort_order = "NewestFirst"
    /\ schedule = DefaultSchedule
    /\ max_visible = MaxVisible
    /\ max_entries = HistoryMaxEntries
    /\ history_store = TRUE
    /\ history = << >>
    /\ bus_signals = << >>
    /\ notify_log = << >>
    /\ close_by = << >>
    /\ override = "none"
    /\ invoke_log = << >>
    /\ rules = << >>
    /\ conn_open = TRUE
    /\ conn_lines = << >>
    /\ conn_out = << >>
    /\ toggles = NoToggles
    /\ last_tick = << >>
    /\ calls = NoCalls
    /\ gate_ops = NoGateOps
    /\ action_chan = << >>
    /\ match_log = << >>

Next ==
    \/ \E r \in ReplacesIds, i \in NotifyInputs :
          clock < MaxNotify /\ notify(r, {}, DefaultHints(i[1]), i[2])
    \/ \E id \in Ids : bus_close_notification(id)
    \/ \E id \in Ids : action_hovered(id)
    \/ \E id \in Ids : action_unhovered(id)
    \/ \E t \in timers : timer_expiry(t)

\* The notification manager under the default configuration: the bus methods
\* Notify and CloseNotification, the expiry tasks, and the pointer entering and
\* leaving popups.  The manager holds no reference to DndState, so the DND
\* commands are left to GateSpec and DndSpec; Notify's urgency and timeout come
\* from NotifyInputs here and from the full product Urgencies \X ExpireTimeouts
\* in GateSpec.
Spec == Init /\ [][Next]_vars

CloseNext ==
    \/ \E r \in ReplacesIds, i \in NotifyInputs :
          clock < MaxNotify /\ notify(r, {}, DefaultHints(i[1]), i[2])
    \/ \E id \in Ids : bus_close_notification(id)
    \/ \E id \in Ids : ipc_dismiss(id)
    \/ \E id \in Ids : action_dismissed(id)
    \/ \E t \in timers : timer_expiry(t)

\* Every way a notification is closed: the bus method, the socket command, the
\* presenter's Dismissed event and the expiry tasks.
CloseSpec == Init /\ [][CloseNext]_vars

GateNext ==
    \/ \E r \in ReplacesIds, u \in Urgencies, e \in ExpireTimeouts :
          clock < MaxNotify /\ notify(r, {}, DefaultHints(u), e)
    \/ \E t \in timers : timer_expiry(t)
    \/ ipc_enable_dnd
    \/ ipc_disable_dnd
    \/ ipc_toggle_dnd

\* Notify and expiry while the socket's DND commands switch the gate.
GateSpec == Init /\ [][GateNext]_vars

\* The DND gate alone, under any schedule: the socket's manual commands and
\* the scheduler's ticks.
DndInit ==
    /\ notifications = << >>
    /\ display_order = << >>
    /\ next_id = 1
    /\ ui_chan = << >>
    /\ close_chan = << >>
    /\ timers = {}
    /\ clock = 0
    /\ enabled = FALSE
    /\ manual = FALSE
    /\ sort_order = "NewestFirst"
    /\ schedule \in Schedules
    /\ max_visible = MaxVisible
    /\ max_entries = HistoryMaxEntries
    /\ history_store = TRUE
    /\ history = << >>
    /\ bus_signals = << >>
    /\ notify_log = << >>
    /\ close_by = << >>
    /\ override = "none"
    /\ invoke_log = << >>
    /\ rules = << >>
    /\ conn_open = TRUE
    /\ conn_lines = << >>
    /\ conn_out = << >>
    /\ toggles = NoToggles
    /\ last_tick = << >>
    /\ calls = NoCalls
    /\ gate_ops = NoGateOps
    /\ action_chan = << >>
    /\ match_log = << >>

DndNext ==
    \/ ipc_enable_dnd
    \/ ipc_disable_dnd
    \/ ipc_toggle_dnd
    \/ \E now \in Times, wd \in Weekdays : scheduler_tick(now, wd)

DndSpec == DndInit /\ [][DndNext]_vars

\* The daemon's own tasks under the runtime's fair scheduling: an expiry task
\* whose sleep is over eventually runs.  Clients and the user may stop calling
\* at any time.  No task receives from the close channel.
FairSpec == Init /\ [][Next]_vars /\ WF_vars(\E t \in timers : timer_expiry(t))

ActionNext ==
    \/ \E r \in ReplacesIds, actions \in ActionSets, resident \in BOOLEAN :
          /\ clock < MaxNotify
          /\ notify(r, actions, [DefaultHints(Normal) EXCEPT !.resident = resident], 0)
    \/ \E id \in Ids, key \in ActionKeys :
          Len(invoke_log) < MaxInvoke /\ action_invoked(id, key)
    \/ \E id \in Ids, key \in ActionKeys :
          Len(invoke_log) < MaxInvoke /\ ipc_invoke_action(id, key)

\* Notifications with and without actions, resident or not, and action
\* invocations from the presenter and from the control socket.
ActionSpec == Init /\ [][ActionNext]_vars

\* Notify calls that take the id counter once around and onto the first id
WrapNotifies == IdModulus + 1

WrapNext ==
    \/ clock < WrapNotifies /\ notify(0, {}, DefaultHints(Normal), 0)
    \/ bus_close_notification(1)

\* A long run: fresh notifications until the id counter has wrapped, while
\* the first notification stays open or is closed.
WrapSpec == Init /\ [][WrapNext]_vars

RaceNext ==
    \/ \E c \in RaceTasks, r \in ReplacesIds :
          clock < MaxNotify /\ add_resolve(c, r)
    \/ \E c \in RaceTasks : add_insert(c)
    \/ \E c \in RaceTasks : add_publish(c)
    \/ \E id \in Ids : close_remove(1, id, CloseCall)
    \/ \E id \in Ids : close_remove(2, id, Dismissed)
    \/ \E c \in RaceTasks : close_publish(c)

\* Two calls in flight on the worker threads of the runtime, step by step: a
\* step is what one call does while it holds one lock.  Either call may be a
\* Notify; the first one's closes are CloseNotification calls of the bus, the
\* second one's are dismissals.
RaceSpec == Init /\ [][RaceNext]_vars

ClickNext ==
    \/ \E r \in ReplacesIds, u \in Urgencies :
          clock < MaxNotify /\ notify(r, {"default"}, DefaultHints(u), 0)
    \/ \E id \in Ids :
          /\ Len(invoke_log) < MaxInvoke
          /\ action_chan = << >>
          /\ click_released(id)
    \/ action_focus_app
    \/ action_default_action

\* Notifications with a default action and the user's primary clicks on
\* their popups.
ClickSpec == Init /\ [][ClickNext]_vars

EnableRaceNext ==
    \/ enable_store_enabled
    \/ enable_store_manual
    \/ \E now \in Times, wd \in Weekdays : scheduled_load(now, wd)
    \/ scheduled_store

\* One enable_dnd command on a connection task and one tick of the
\* scheduler's task, on the worker threads of the runtime.
EnableRaceSpec == DndInit /\ [][EnableRaceNext]_vars

ToggleNext ==
    \/ \E c \in ToggleTasks : toggle_load(c)
    \/ \E c \in ToggleTasks : toggle_store_enabled(c)
    \/ \E c \in ToggleTasks : toggle_store_manual(c)
    \/ \E c \in ToggleTasks : toggle_respond(c)
    \/ \E now \in Times, wd \in Weekdays : scheduler_tick(now, wd)

\* Two connections send toggle_dnd once each, their tasks running on the
\* worker threads of the runtime next to the scheduler's task.
ToggleSpec == DndInit /\ [][ToggleNext]_vars

\* the commands sent on the observed connection
ConnCommands ==
    { Command("Dismiss", id, "") : id \in Ids }
    \cup { Command("InvokeAction", id, "default") : id \in Ids }
    \cup { Command("DismissAll", 0, ""), Command("ToggleDnd", 0, ""),
           Command("GetDndStatus", 0, "") }

\* the lines a client can send: a command, text that is not a command, and
\* bytes that are not UTF-8
ConnLines ==
    { Line(TRUE, <<c>>) : c \in ConnCommands }
    \cup { Line(TRUE, << >>), Line(FALSE, << >>) }

ConnNext ==
    \/ clock < MaxNotify /\ notify(0, {}, DefaultHints(Normal), 0)
    \/ \E line \in ConnLines : Len(conn_lines) < MaxLines /\ handle_client(line)

\* One client connection of the control socket, its lines handled one after
\* the other, while Notify calls arrive on the bus.
ConnSpec == Init /\ [][ConnNext]_vars

\* AppRule: an Option is the empty sequence or a sequence of one value
AppRule(criteria_urgency, timeout, urgency) ==
    [criteria |-> [app_name |-> << >>, summary |-> << >>, body |-> << >>,
                   urgency |-> criteria_urgency, category |-> << >>],
     actions |-> [timeout |-> timeout, urgency |-> urgency]]

\* rule lists of a configuration file: none, a timeout for normal urgency, a
\* promotion of everything to critical, both in either order, and a rule with
\* an urgency name that is not one of the three
RuleLists ==
    LET timed == AppRule(<<"normal">>, <<1000>>, << >>)
        promoted == AppRule(<< >>, << >>, <<"Critical">>)
        unknown == AppRule(<<"urgent">>, <<0>>, <<"urgent">>)
    IN {<< >>, <<timed>>, <<promoted>>, <<timed, promoted>>, <<promoted, timed>>,
        <<unknown>>}

RuleInit ==
    /\ notifications = << >>
    /\ display_order = << >>
    /\ next_id = 1
    /\ ui_chan = << >>
    /\ close_chan = << >>
    /\ timers = {}
    /\ clock = 0
    /\ enabled = FALSE
    /\ manual = FALSE
    /\ sort_order = "NewestFirst"
    /\ schedule = DefaultSchedule
    /\ max_visible = MaxVisible
    /\ max_entries = HistoryMaxEntries
    /\ history_store = TRUE
    /\ history = << >>
    /\ bus_signals = << >>
    /\ notify_log = << >>
    /\ close_by = << >>
    /\ override = "none"
    /\ invoke_log = << >>
    /\ rules \in RuleLists
    /\ conn_open = TRUE
    /\ conn_lines = << >>
    /\ conn_out = << >>
    /\ toggles = NoToggles
    /\ last_tick = << >>
    /\ calls = NoCalls
    /\ gate_ops = NoGateOps
    /\ action_chan = << >>
    /\ match_log = << >>

RuleNext ==
    \/ \E r \in ReplacesIds, u \in Urgencies, e \in ExpireTimeouts :
          clock < MaxNotify /\ notify(r, {}, DefaultHints(u), e)
    \/ \E id \in Ids : bus_close_notification(id)

\* Notify under a configuration with rules.
RuleSpec == RuleInit /\ [][RuleNext]_vars

\* RuleCriteria of a configuration file
RuleCriteria(app_name, summary, body, urgency, category) ==
    [app_name |-> app_name, summary |-> summary, body |-> body,
     urgency |-> urgency, category |-> category]

\* the rules of a configuration file: no criterion at all, one criterion (a
\* regex on the application name, a pattern that is no regex, a regex on the
\* summary, one on the body, an urgency name in three spellings, a name that
\* is no urgency, a category), or two of them
MatchRules ==
    LET none == << >>
        a == << <<"a">> >>
    IN { [criteria |-> c, actions |-> [timeout |-> none, urgency |-> none]] :
           c \in { RuleCriteria(none, none, none, none, none),
                   RuleCriteria(a, none, none, none, none),
                   RuleCriteria(<< <<"[">> >>, none, none, none, none),
                   RuleCriteria(none, << <<"b">> >>, none, none, none),
                   RuleCriteria(none, none, a, none, none),
                   RuleCriteria(none, none, none, <<"low">>, none),
                   RuleCriteria(none, none, none, <<"Critical">>, none),
                   RuleCriteria(none, none, none, <<"NORMAL">>, none),
                   RuleCriteria(none, none, none, <<"urgent">>, none),
                   RuleCriteria(none, none, none, none, a),
                   RuleCriteria(a, none, none, <<"low">>, none),
                   RuleCriteria(none, none, none, <<"urgent">>, a) } }

\* config.rules: the rules of the file, in the file's order
MatchRuleLists == UNION { [1 .. n -> MatchRules] : n \in 0 .. MaxRules }

\* the notifications the matcher is given
MatchNotifications ==
    { Notification(app_name, <<"a", "b">>, << >>, urgency, category) :
        app_name \in { <<"a">>, <<"b", "a">>, <<"[">> },
        urgency \in Urgencies,
        category \in { << >>, << <<"a">> >> } }

MatchInit ==
    /\ notifications = << >>
    /\ display_order = << >>
    /\ next_id = 1
    /\ ui_chan = << >>
    /\ close_chan = << >>
    /\ timers = {}
    /\ clock = 0
    /\ enabled = FALSE
    /\ manual = FALSE
    /\ sort_order = "NewestFirst"
    /\ schedule = DefaultSchedule
    /\ max_visible = MaxVisible
    /\ max_entries = HistoryMaxEntries
    /\ history_store = TRUE
    /\ history = << >>
    /\ bus_signals = << >>
    /\ notify_log = << >>
    /\ close_by = << >>
    /\ override = "none"
    /\ invoke_log = << >>
    /\ rules \in MatchRuleLists
    /\ conn_open = TRUE
    /\ conn_lines = << >>
    /\ conn_out = << >>
    /\ toggles = NoToggles
    /\ last_tick = << >>
    /\ calls = NoCalls
    /\ gate_ops = NoGateOps
    /\ action_chan = << >>
    /\ match_log = << >>

\* a call of RuleMatcher::find_matching_rule with the configured rules
match_rule(notification) ==
    /\ match_log' = <<[notification |-> notification,
                       result |-> find_matching_rule(notification, rules)]>>
    /\ UNCHANGED <<mgr_vars, dnd_vars, cfg_vars, bus_vars, conn_vars, history,
                   notify_log, close_by, calls, gate_ops, action_chan>>

MatchNext == \E notification \in MatchNotifications : match_rule(notification)

\* The matcher on every rule list and notification of the bounds.
MatchSpec == MatchInit /\ [][MatchNext]_vars

\* general.max_visible as configurations set it: small values and the default
VisibleCaps == {1, 2, MaxVisible}

OrderIds == 1 .. MaxOrderNotify
OrderReplacesIds == 0 .. MaxOrderNotify

OrderInit ==
    /\ notifications = << >>
    /\ display_order = << >>
    /\ next_id = 1
    /\ ui_chan = << >>
    /\ close_chan = << >>
    /\ timers = {}
    /\ clock = 0
    /\ enabled = FALSE
    /\ manual = FALSE
    /\ sort_order \in SortOrders
    /\ schedule = DefaultSchedule
    /\ max_visible \in VisibleCaps
    /\ max_entries = HistoryMaxEntries
    /\ history_store = TRUE
    /\ history = << >>
    /\ bus_signals = << >>
    /\ notify_log = << >>
    /\ close_by = << >>
    /\ override = "none"
    /\ invoke_log = << >>
    /\ rules = << >>
    /\ conn_open = TRUE
    /\ conn_lines = << >>
    /\ conn_out = << >>
    /\ toggles = NoToggles
    /\ last_tick = << >>
    /\ calls = NoCalls
    /\ gate_ops = NoGateOps
    /\ action_chan = << >>
    /\ match_log = << >>

OrderNext ==
    \/ \E r \in OrderReplacesIds, u \in Urgencies :
          clock < MaxOrderNotify /\ notify(r, {}, DefaultHints(u), 0)
    \/ \E id \in OrderIds : bus_close_notification(id)

\* The display order under each sort order and small max_visible: Notify,
\* fresh and replacing, of every urgency, and CloseNotification.  The
\* notifications never expire.
OrderSpec == OrderInit /\ [][OrderNext]_vars

\* times, in milliseconds, of the rows an earlier run of the daemon left
PersistedStamps == {1, 1000}

\* rows an earlier run left in the database file (ids restart at 1 every run)
PersistedRows == { HistoryEntry(1, ms) : ms \in PersistedStamps }

\* the table when the daemon opens the database: empty on a first run
PersistedStores ==
    {<< >>} \cup { <<a>> : a \in PersistedRows } \cup { <<a, b>> : a, b \in PersistedRows }

StoreInit ==
    /\ notifications = << >>
    /\ display_order = << >>
    /\ next_id = 1
    /\ ui_chan = << >>
    /\ close_chan = << >>
    /\ timers = {}
    /\ clock = 0
    /\ enabled = FALSE
    /\ manual = FALSE
    /\ sort_order = "NewestFirst"
    /\ schedule = DefaultSchedule
    /\ max_visible = MaxVisible
    /\ max_entries \in 0 .. MaxEntriesCfg
    /\ history_store \in BOOLEAN
    /\ history \in (IF history_store THEN PersistedStores ELSE {<< >>})
    /\ bus_signals = << >>
    /\ notify_log = << >>
    /\ close_by = << >>
    /\ override = "none"
    /\ invoke_log = << >>
    /\ rules = << >>
    /\ conn_open = TRUE
    /\ conn_lines = << >>
    /\ conn_out = << >>
    /\ toggles = NoToggles
    /\ last_tick = << >>
    /\ calls = NoCalls
    /\ gate_ops = NoGateOps
    /\ action_chan = << >>
    /\ match_log = << >>

StoreNext ==
    \/ \E r \in ReplacesIds, transient \in BOOLEAN :
          /\ clock < MaxNotify
          /\ notify(r, {}, [DefaultHints(Normal) EXCEPT !.transient = transient], 0)
    \/ \E id \in Ids : action_dismissed(id)
    \/ ipc_toggle_dnd

\* The history store behind Notify and the presenter's Dismissed event, for
\* small max_entries, over the database an earlier run left, with DND switched
\* on and off.  The notifications never expire.
StoreSpec == StoreInit /\ [][StoreNext]_vars

\* ------------------------------------------------------------------ claims

\* how many close signals were sent for id
CloseSignals(id) == Cardinality({ k \in 1 .. Len(close_chan) : close_chan[k][1] = id })

\* ids that a Notify put into the registry
Entered == { notify_log[k].id : k \in 1 .. Len(notify_log) }

\* C1: for every id that entered the registry, at most one close signal is
\* ever sent on the close channel, and exactly one has been sent once the id
\* is no longer in the registry.
C1_ClosureUniqueness ==
    \A id \in Entered :
        /\ CloseSignals(id) <= 1
        /\ id \notin Live => CloseSignals(id) = 1

\* the registry still holds the version of the notification that armed t
Current(t) == t.id \in Live /\ notifications[t.id].created_at = t.at

\* C2: when the expiry timer of a live notification fires and the
\* notification was neither closed, replaced nor hovered, the notification
\* leaves the registry and the display order (count() drops by one, it is no
\* longer visible) and one close signal with reason Expired is sent.
C2_ExpiryRemovesAndSignals ==
    [][ \A t \in timers :
          (timer_expiry(t) /\ Current(t) /\ ~notifications[t.id].is_hovered)
          => /\ t.id \notin Live'
             /\ t.id \notin Range(display_order')
             /\ \A n \in Range(get_visible_notifications') : n.id # t.id
             /\ count' = count - 1
             /\ close_chan' = Append(close_chan, <<t.id, Expired>>) ]_vars

\* C3: once a live id has been replaced, the expiry timer armed for the
\* replaced version causes no UI Close event and no close signal for the id.
C3_StaleTimerIsSilent ==
    [][ \A t \in timers :
          (timer_expiry(t) /\ t.id \in Live /\ ~Current(t))
          => /\ ui_chan' = ui_chan
             /\ close_chan' = close_chan ]_vars

IsFresh(k) == notify_log[k].fresh

\* C4: the first fresh allocation returns id 1, every later fresh allocation
\* returns a value greater than every id returned before, and a freshly
\* allocated id is not an id that is live in the registry.
C4_FreshIdsIncrease ==
    \A l \in 1 .. Len(notify_log) :
        IsFresh(l) =>
            /\ \A k \in 1 .. (l - 1) : notify_log[k].id < notify_log[l].id
            /\ (\A k \in 1 .. (l - 1) : ~IsFresh(k)) => notify_log[l].id = 1
            /\ notify_log[l].id \notin notify_log[l].live_before

\* a second fresh allocation made while the first id was live
C4_Witness ==
    /\ Len(notify_log) >= 2
    /\ IsFresh(1) /\ IsFresh(2)
    /\ notify_log[2].live_before = {notify_log[1].id}

\* the id the latest Notify returned
Returned == notify_log[Len(notify_log)].id

\* C5: a Notify with replaces_id = i, i a key of the registry, returns i and
\* leaves the number of registry entries unchanged; a Notify whose replaces_id
\* is 0 or not live returns a freshly allocated id and grows the registry by one.
C5_ReplacementPreservesId ==
    [][ \A r \in ReplacesIds, u \in Urgencies, e \in ExpireTimeouts :
          notify(r, {}, DefaultHints(u), e)
          => IF r \in Live
             THEN /\ Returned' = r
                  /\ count' = count
                  /\ Live' = Live
             ELSE /\ Returned' = next_id
                  /\ Returned' \notin Live
                  /\ Live' = Live \cup {Returned'}
                  /\ count' = count + 1 ]_vars

\* the second Notify replaced the first: same id, one registry entry
C5_Witness ==
    /\ Len(notify_log) >= 2
    /\ ~IsFresh(2)
    /\ notify_log[2].id = notify_log[1].id
    /\ count = 1

\* C6: every close signal carries the reason code of its cause: 1 for a timer
\* expiry, 2 for a socket dismiss and for a presenter Dismissed event, 3 for a
\* bus CloseNotification call.
C6_ReasonMatchesCause ==
    /\ Len(close_by) = Len(close_chan)
    /\ \A k \in 1 .. Len(close_chan) :
          close_chan[k][2] =
            CASE close_by[k] = "Timer" -> 1
              [] close_by[k] \in {"IpcDismiss", "Dismissed"} -> 2
              [] close_by[k] = "CloseNotification" -> 3

\* a timer, the bus and a dismissal have each sent a close signal
C6_Witness ==
    /\ {"Timer", "CloseNotification"} \subseteq Range(close_by)
    /\ Range(close_by) \cap {"IpcDismiss", "Dismissed"} # {}

\* C7: while a live notification is hovered, its expiry timer firing emits no
\* UI Close event and no Expired close signal for it.
C7_HoverFreezesExpiry ==
    [][ \A t \in timers :
          (timer_expiry(t) /\ Current(t) /\ notifications[t.id].is_hovered)
          => /\ ui_chan' = ui_chan
             /\ close_chan' = close_chan ]_vars

\* C8: while DND is enabled, a Notify of urgency Low or Normal sends no Show
\* and no Update, is not inserted into the registry and arms no timer (and
\* still returns an id).
C8_DndSuppressesNonCritical ==
    [][ \A r \in ReplacesIds, u \in {Low, Normal}, e \in ExpireTimeouts :
          (notify(r, {}, DefaultHints(u), e) /\ is_enabled)
          => /\ ui_chan' = ui_chan
             /\ notifications' = notifications
             /\ timers' = timers
             /\ Len(notify_log') = Len(notify_log) + 1 ]_vars

\* C9: while DND is enabled, a Notify of urgency Critical is inserted into
\* the registry, sends Show (Update on replacement) and has its expiry timer
\* armed when its resolved timeout is positive, as with DND disabled.
C9_CriticalBypassesDnd ==
    [][ \A r \in ReplacesIds, e \in ExpireTimeouts :
          (notify(r, {}, DefaultHints(Critical), e) /\ is_enabled)
          => LET id == IF r \in Live THEN r ELSE next_id
                 timeout == calculate_timeout(e, Critical)
                 event == ui_chan'[Len(ui_chan')]
             IN /\ id \in Live'
                /\ notifications'[id].urgency = Critical
                /\ Len(ui_chan') = Len(ui_chan) + 1
                /\ event.id = id
                /\ event.type = IF r \in Live THEN "Update" ELSE "Show"
                /\ event.n = notifications'[id]
                /\ timers' = IF timeout > 0
                             THEN timers \cup {[id |-> id, at |-> clock, timeout_ms |-> timeout]}
                             ELSE timers ]_vars

\* a Critical notification submitted under DND is live with its timer armed
C9_Witness ==
    \E k \in 1 .. Len(notify_log) :
        /\ notify_log[k].dnd
        /\ notify_log[k].urgency = Critical
        /\ notify_log[k].timeout > 0
        /\ notify_log[k].id \in Live
        /\ \E t \in timers : t.id = notify_log[k].id /\ t.at = k - 1

\* C10: after a manual enable, disable or toggle, is_enabled() keeps the value
\* that operation set, across any scheduler ticks, until the next manual one.
C10_ManualOverrideOutlastsSchedule ==
    override # "none" => (is_enabled <=> override = "on")

\* the Notify call that has just returned
LastCall == notify_log[Len(notify_log)]

\* this step is a Notify call
NotifyReturns == Len(notify_log') = Len(notify_log) + 1

\* the store holds a row for id
HasRow(rows, id) == \E k \in 1 .. Len(rows) : rows[k].notification_id = id

\* C11 (as stated): after a Notify call returns id n, with the history store
\* available, the store contains a row with notification_id = n if and only
\* if the notification's transient hint was false, DND enabled or not.
C11_RowIffNotTransient ==
    [][ (NotifyReturns /\ history_store)
        => (HasRow(history', LastCall'.id) <=> ~LastCall'.transient) ]_vars

\* the row a Notify at this moment stores for id
RowFor(id) ==
    [notification_id |-> id, timestamp |-> to_rfc3339(clock),
     dismissed |-> FALSE, expired |-> FALSE]

\* C11 (amended): with the history store available, a Notify whose transient
\* hint is true leaves the store as it was, and a Notify whose transient hint
\* is false inserts one row for the id it returns, which is there after the
\* call whenever the store held fewer than max_entries rows before; the store
\* then holds one row more, capped at max_entries.  DND enabled or not.
C11_TransientSkipsHistory ==
    [][ (NotifyReturns /\ history_store)
        => IF LastCall'.transient
           THEN history' = history
           ELSE /\ store_count' = (IF store_count + 1 < max_entries
                                   THEN store_count + 1 ELSE max_entries)
                /\ store_count < max_entries
                     => history' = Append(history, RowFor(LastCall'.id)) ]_vars

\* under DND, a transient call stored nothing and a persistent call's row is
\* in the store
C11_Witness ==
    /\ history_store
    /\ Len(notify_log) = 2
    /\ notify_log[1].dnd /\ notify_log[1].transient
    /\ notify_log[2].dnd /\ ~notify_log[2].transient
    /\ ~HasRow(history, notify_log[1].id)
    /\ HasRow(history, notify_log[2].id)

\* C12: when an action is invoked, from the presenter or the socket, on a live
\* id with a key among the notification's actions, an ActionInvoked(id, key)
\* signal is published; afterwards the notification is closed with reason
\* Dismissed if it is not resident, and stays live with no close signal if it
\* is resident.
C12_InvokedActionIsSignalled ==
    \A k \in 1 .. Len(invoke_log) :
        LET call == invoke_log[k]
        IN call.exists
           => /\ ActionInvoked(call.id, call.action_key) \in Range(bus_signals)
              /\ IF call.resident
                 THEN call.id \in Live /\ CloseSignals(call.id) = 0
                 ELSE call.id \notin Live /\ <<call.id, Dismissed>> \in Range(close_chan)

\* C13: a Notify that replaces a live id i sends exactly one Update(i, n) event
\* and no Show or Close event to the UI channel, sends no close signal,
\* overwrites the registry entry for i with the new notification and leaves
\* the display order unchanged.
C13_ReplacementUpdatesInPlace ==
    [][ \A i \in Ids, u \in Urgencies, e \in ExpireTimeouts :
          (notify(i, {}, DefaultHints(u), e) /\ i \in Live)
          => LET n == notifications'[i]
             IN /\ ui_chan' = Append(ui_chan, [type |-> "Update", id |-> i, n |-> n])
                /\ close_chan' = close_chan
                /\ Live' = Live
                /\ n.id = i /\ n.urgency = u /\ n.expire_timeout = e
                /\ n.created_at = clock /\ ~n.is_hovered
                /\ \A j \in Live \ {i} : notifications'[j] = notifications[j]
                /\ display_order' = display_order ]_vars

\* id 1 was shown and then replaced: one Show, one Update, no close
C13_Witness ==
    /\ Len(ui_chan) = 2
    /\ ui_chan[1].type = "Show" /\ ui_chan[1].id = 1
    /\ ui_chan[2].type = "Update" /\ ui_chan[2].id = 1
    /\ ui_chan[2].n.created_at > ui_chan[1].n.created_at
    /\ close_chan = << >>
    /\ display_order = <<1>>
    /\ notifications[1] = ui_chan[2].n

\* the UI events that name id, in the order they were sent
EventsOf(id) == SelectSeq(ui_chan, LAMBDA ev : ev.id = id)

\* C14: in every interleaving of Notify, close and timer expiry, the events
\* sent on the UI channel for one id are a Show, then zero or more Update,
\* then at most one Close: no Update or Close precedes the Show, and no Show
\* or Update follows the Close.
C14_UiEventsFollowLifecycle ==
    \A id \in Ids :
        LET evs == EventsOf(id)
        IN \A k \in 1 .. Len(evs) :
              /\ (evs[k].type = "Show") <=> (k = 1)
              /\ (evs[k].type = "Close") => (k = Len(evs))

\* C15: every (id, reason) pair that the manager sends on the close channel is
\* eventually received and published as a NotificationClosed(id, reason)
\* signal on the bus, the daemon's tasks being scheduled fairly.
C15_CloseSignalReachesBus ==
    \A id \in Ids, reason \in {Expired, Dismissed, CloseCall, Undefined} :
        (<<id, reason>> \in Range(close_chan))
            ~> (NotificationClosed(id, reason) \in Range(bus_signals))

\* a Notify of this run has completed an add
AddCompleted ==
    history_store /\ \E k \in 1 .. Len(notify_log) : ~notify_log[k].transient

\* C16: after every completed HistoryStore.add, for any number of accepted
\* non-transient notifications, count() is at most max_entries.
C16_HistoryBound ==
    AddCompleted => store_count <= max_entries

\* two persistent notifications were stored and max_entries = 1 row is left
C16_Witness ==
    /\ history_store
    /\ max_entries = 1
    /\ Len(notify_log) = 2
    /\ ~notify_log[1].transient /\ ~notify_log[2].transient
    /\ store_count = max_entries

\* the times of the rows, read back from their text
Stamps(rows) == { parse_from_rfc3339(rows[k].timestamp) : k \in 1 .. Len(rows) }

\* the n greatest of a set of times
Greatest(S, n) == { t \in S : Cardinality({ v \in S : v > t }) < n }

\* C17: after add(entry) completes, the rows remaining in the store are
\* exactly the max_entries rows with the greatest timestamps among the rows
\* present before the add together with the new row (all of them when there
\* are at most max_entries), for entries with distinct timestamps.
C17_KeepsMostRecent ==
    [][ (NotifyReturns /\ history_store /\ ~LastCall'.transient)
        => LET all == Append(history, RowFor(LastCall'.id))
               kept == Greatest(Stamps(all), max_entries)
           IN Cardinality(Stamps(all)) = Len(all)
              => /\ Range(history') =
                       { row \in Range(all) : parse_from_rfc3339(row.timestamp) \in kept }
                 /\ Cardinality(Range(history')) = store_count' ]_vars

\* with max_entries = 1, the row of a whole second left by an earlier run
\* outlived a row inserted in this run, whose time of day is earlier
C17_Witness ==
    /\ history_store
    /\ max_entries = 1
    /\ \E k \in 1 .. Len(notify_log) : ~notify_log[k].transient
    /\ store_count = 1
    /\ parse_from_rfc3339(history[1].timestamp) = 1000

\* where id stands in the display order
Pos(order, id) == CHOOSE p \in 1 .. Len(order) : order[p] = id

\* C18: in every reachable state, get_visible_notifications() returns at most
\* general.max_visible notifications, each of them live in the registry, in
\* the order of the display-order list.
C18_VisibleIsBounded ==
    LET visible == get_visible_notifications
    IN /\ Len(visible) <= max_visible
       /\ \A k \in 1 .. Len(visible) :
             /\ visible[k].id \in Live
             /\ visible[k] = notifications[visible[k].id]
             /\ visible[k].id \in Range(display_order)
       /\ \A j, k \in 1 .. Len(visible) :
             j < k => Pos(display_order, visible[j].id) < Pos(display_order, visible[k].id)

\* three notifications are live and two of them are visible
C18_Witness ==
    /\ max_visible = 2
    /\ Len(display_order) = 3
    /\ count = 3
    /\ Len(get_visible_notifications) = 2

\* C19: with sort_order = NewestFirst, in every state reachable by Notify
\* (fresh or replacing a live id) and close operations, the list returned by
\* get_visible_notifications() is monotonically decreasing in created_at: each
\* entry's created_at is not earlier than that of the entry after it.
C19_NewestFirstIsDecreasing ==
    sort_order = "NewestFirst"
    => LET visible == get_visible_notifications
       IN \A k \in 1 .. (Len(visible) - 1) :
             visible[k].created_at >= visible[k + 1].created_at

\* C20: with sort_order = UrgencyDescending, a fresh Notify inserts the new id
\* immediately before the first id in the display order whose notification
\* has strictly lower urgency, or appends it when there is none; the relative
\* order of the ids already present is unchanged, so equal-urgency
\* notifications stay in insertion order.
C20_UrgencyInsertion ==
    [][ (NotifyReturns /\ LastCall'.fresh /\ sort_order = "UrgencyDescending")
        => LET id == LastCall'.id
               p == Pos(display_order', id)
           IN /\ SelectSeq(display_order', LAMBDA x : x # id) = display_order
              /\ \A q \in 1 .. (p - 1) :
                    notifications[display_order'[q]].urgency >= LastCall'.urgency
              /\ p < Len(display_order')
                    => notifications[display_order'[p + 1]].urgency < LastCall'.urgency ]_vars

\* normal, low and critical submitted in that order list as [3, 1, 2]
C20_Witness ==
    /\ sort_order = "UrgencyDescending"
    /\ Len(notify_log) = 3
    /\ \A k \in 1 .. 3 : notify_log[k].fresh /\ notify_log[k].id = k
    /\ notify_log[1].urgency = Normal
    /\ notify_log[2].urgency = Low
    /\ notify_log[3].urgency = Critical
    /\ display_order = <<3, 1, 2>>

\* C28: after each of DndState.enable(), disable() and toggle(), from any
\* state, the manual flag is true.
C28_ManualAfterOverride ==
    [][(ipc_enable_dnd \/ ipc_disable_dnd \/ ipc_toggle_dnd) => manual']_vars

\* C29: a scheduler tick calls enable_scheduled exactly when the weekday is in
\* the day set (or the set is empty) and the time is in the range, the range
\* being start <= t < end when start < end and the overnight range t >= start
\* or t < end whenever end <= start, end = start included; otherwise it calls
\* disable_scheduled.
C29_TickFollowsSchedule ==
    \A k \in 1 .. Len(last_tick) :
        LET t == last_tick[k].current_time
            start == schedule.schedule_start
            end == schedule.schedule_end
            day == schedule.schedule_days = {}
                   \/ last_tick[k].current_weekday \in schedule.schedule_days
            range == IF start < end THEN start <= t /\ t < end
                                    ELSE t >= start \/ t < end
        IN /\ last_tick[k].call \in {"enable_scheduled", "disable_scheduled"}
           /\ last_tick[k].call = "enable_scheduled" <=> (day /\ range)

\* C27: for every notification stored by Notify the resolved timeout is 0 when
\* expire_timeout = 0, expire_timeout when it is positive, and otherwise the
\* configured default of its urgency; expires_at is set exactly when the
\* resolved timeout is positive, and so is the arming of an expiry timer.
C27_TimeoutResolution ==
    [][NotifyReturns =>
              LET id == notify_log'[Len(notify_log')].id
                  e == notifications'[id].expire_timeout
                  u == notifications'[id].urgency
                  resolved == IF e = 0 THEN 0
                              ELSE IF e > 0 THEN e
                              ELSE IF u = Low THEN TimeoutLow
                              ELSE IF u = Normal THEN TimeoutNormal
                              ELSE TimeoutCritical
                  armed == { t \in timers' \ timers : t.id = id }
              IN /\ id \in DOMAIN notifications'
                 /\ notifications'[id].expires_at # NoTime <=> resolved > 0
                 /\ resolved > 0 => notifications'[id].expires_at = clock + resolved
                 /\ armed # {} <=> resolved > 0
                 /\ \A t \in armed : t.timeout_ms = resolved
                 /\ timers \subseteq timers'
                 /\ Cardinality(timers' \ timers) <= 1]_vars

\* a critical notification left to the default (no timeout, no timer) next
\* to one with an explicit positive timeout and its timer
C27_Witness ==
    \E i \in Live, j \in Live :
        /\ notifications[i].expire_timeout < 0
        /\ notifications[i].urgency = Critical
        /\ notifications[i].expires_at = NoTime
        /\ \A t \in timers : t.id # i
        /\ notifications[j].expire_timeout > 0
        /\ notifications[j].expires_at # NoTime
        /\ \E t \in timers : t.id = j /\ t.timeout_ms = notifications[j].expire_timeout

\* the latest row stored for id carries the flag
Marked(rows, id, flag) ==
    \E k \in 1 .. Len(rows) :
        /\ rows[k].notification_id = id
        /\ rows[k][flag]
        /\ \A j \in k + 1 .. Len(rows) : rows[j].notification_id # id

\* a live notification that has a history row
Persisted(id) ==
    id \in Live /\ ~notifications[id].transient /\ HasRow(history, id)

\* C23: whenever a persisted live notification is closed, its history row is
\* marked on every close path: expired when the close is a timer expiry,
\* dismissed when it is a dismissal from the presenter or from the socket
\* command dismiss.
C23_EveryClosePathMarksHistory ==
    [][/\ \A t \in timers :
            (timer_expiry(t) /\ Persisted(t.id)) => Marked(history', t.id, "expired")
       /\ \A id \in Ids :
            (action_dismissed(id) /\ Persisted(id)) => Marked(history', id, "dismissed")
       /\ \A id \in Ids :
            (ipc_dismiss(id) /\ Persisted(id)) => Marked(history', id, "dismissed")]_vars

\* C30: when several history rows share a notification_id, mark_dismissed(id)
\* and mark_expired(id) set the flag only on the latest of those rows; the
\* flags of the older rows with that notification_id, and of all other rows,
\* stay as they were.
C30_MarksOnlyLatestRow ==
    [][\A id \in Ids :
          (action_dismissed(id) /\ history_store) =>
              /\ Len(history') = Len(history)
              /\ \A k \in 1 .. Len(history) :
                    IF /\ history[k].notification_id = id
                       /\ \A j \in k + 1 .. Len(history) : history[j].notification_id # id
                    THEN history'[k] = [history[k] EXCEPT !.dismissed = TRUE]
                    ELSE history'[k] = history[k]]_vars

\* C25: on every Notify the first matching rule of the configured list is
\* applied before the effective timeout is resolved: its timeout override
\* determines the resolved timeout and expires_at, its urgency override the
\* stored urgency and with it the per-urgency default timeout.
C25_FirstMatchingRuleApplies ==
    [][\A r \in ReplacesIds, u \in Urgencies, e \in ExpireTimeouts :
          notify(r, {}, DefaultHints(u), e) =>
              LET id == notify_log'[Len(notify_log')].id
                  rule == find_matching_rule(
                              Notification(<<"a">>, <<"a">>, << >>, u, << >>), rules)
                  eff == IF rule = << >>
                         THEN [expire_timeout |-> e, urgency |-> u]
                         ELSE apply_rule_actions(e, u, rule[1].actions)
                  resolved == IF eff.expire_timeout = 0 THEN 0
                              ELSE IF eff.expire_timeout > 0 THEN eff.expire_timeout
                              ELSE IF eff.urgency = Low THEN TimeoutLow
                              ELSE IF eff.urgency = Normal THEN TimeoutNormal
                              ELSE TimeoutCritical
              IN /\ notifications'[id].urgency = eff.urgency
                 /\ notifications'[id].expires_at =
                        (IF resolved > 0 THEN clock + resolved ELSE NoTime)]_vars

\* the command of a line that parsed, by type
IsCommand(line, type) ==
    line.utf8 /\ line.parsed # << >> /\ line.parsed[1].type = type

\* C21: close_notification(id, reason) and invoke_action(id, key) for an id
\* that is not in the registry change nothing: the registry and the display
\* order are unchanged, no UI event and no close signal is sent; the socket
\* commands dismiss and invoke_action still answer success: true.
C21_AbsentIdIsNoOp ==
    [][\A line \in ConnLines :
          (/\ handle_client(line)
           /\ IsCommand(line, "Dismiss") \/ IsCommand(line, "InvokeAction")
           /\ line.parsed[1].id \notin Live)
          => /\ UNCHANGED <<notifications, display_order, ui_chan, close_chan, bus_signals>>
             /\ conn_open'
             /\ conn_out' = Append(conn_out,
                    [success |-> TRUE, data |-> << >>, error |-> << >>])]_vars

\* a dismiss and an invoke_action for an id that no Notify has returned, both
\* answered
C21_Witness ==
    /\ Len(conn_lines) = 2
    /\ Len(conn_out) = 2
    /\ IsCommand(conn_lines[1], "Dismiss")
    /\ IsCommand(conn_lines[2], "InvokeAction")
    /\ \A k \in 1 .. 2 : conn_lines[k].parsed[1].id \notin Entered
    /\ Live # {}

\* how many times (id, Dismissed) is in a sequence of close signals
DismissedSignals(chan, id) ==
    Cardinality({ k \in 1 .. Len(chan) : chan[k] = <<id, Dismissed>> })

\* C22: the socket command dismiss_all, issued while the set S of ids is
\* live, sends exactly one close signal (id, Dismissed) for each id in S,
\* leaves the registry and the display order empty, marks the history row of
\* every id in S as dismissed, and answers success.
C22_DismissAllClosesAndMarks ==
    [][\A line \in ConnLines :
          (handle_client(line) /\ IsCommand(line, "DismissAll")) =>
              /\ Len(close_chan') = Len(close_chan) + Cardinality(Live)
              /\ \A id \in Live :
                    DismissedSignals(close_chan', id) = DismissedSignals(close_chan, id) + 1
              /\ DOMAIN notifications' = {}
              /\ display_order' = << >>
              /\ \A id \in Live : HasRow(history, id) => Marked(history', id, "dismissed")
              /\ conn_out' = Append(conn_out,
                     [success |-> TRUE, data |-> << >>, error |-> << >>])]_vars

\* C24: on one control-socket connection every received line produces exactly
\* one response line, in the order the requests were read; a line that is not
\* a valid command produces a response with success: false and an error
\* text, after which the connection stays open and later lines are answered.
C24_OneResponsePerLine ==
    /\ conn_open
    /\ Len(conn_out) = Len(conn_lines)
    /\ \A k \in 1 .. Len(conn_out) :
          IF conn_lines[k].utf8 /\ conn_lines[k].parsed # << >>
          THEN conn_out[k].success /\ conn_out[k].error = << >>
          ELSE ~conn_out[k].success /\ conn_out[k].error # << >>

\* C26: the bool a toggle_dnd command returns is the enabled state that
\* toggle established, the negation of the enabled state immediately before
\* it, also when other DND operations run concurrently; two completed toggles
\* with no other DND operation restore the original enabled state.
C26_ToggleReturnsNewState ==
    /\ \A c \in ToggleTasks :
          toggles[c].pc = "answered" => toggles[c].data = ~toggles[c].current
    /\ (last_tick = << >> /\ \A c \in ToggleTasks : toggles[c].pc = "answered")
          => enabled = FALSE

\* C37: after any sequence of Notify calls within one daemon run,
\* replacements of a live id included, the history store holds at most one
\* row per notification id.
C37_OneRowPerId ==
    \A j \in 1 .. Len(history), k \in 1 .. Len(history) :
        history[j].notification_id = history[k].notification_id => j = k

\* C39: with sort_order = UrgencyDescending, in every state reachable by
\* Notify (fresh, or replacing a live id with a notification of any urgency)
\* and close operations, the ids in the display order are in non-increasing
\* order of the current urgency of their notifications.
C39_DisplayOrderFollowsUrgency ==
    sort_order = "UrgencyDescending" =>
        \A p \in 1 .. Len(display_order), q \in 1 .. Len(display_order) :
            (p < q /\ display_order[p] \in Live /\ display_order[q] \in Live)
                => notifications[display_order[p]].urgency
                       >= notifications[display_order[q]].urgency

\* C32: when the id counter overflows, the next fresh allocation wraps to 1
\* (never 0) and skips every value that is currently live, so Notify never
\* returns 0 and never returns a live id for a fresh notification.
C32_WrapSkipsZeroAndLive ==
    \A k \in 1 .. Len(notify_log) :
        notify_log[k].fresh =>
            /\ notify_log[k].id # 0
            /\ notify_log[k].id \notin notify_log[k].live_before

\* C36: in every interleaving of a manual DndState.enable() with a scheduler
\* call disable_scheduled() or enable_scheduled(), once both calls have
\* completed is_enabled() is true and the manual flag is true.
C36_EnableWinsOverSchedule ==
    (gate_ops.enable.pc = "done" /\ gate_ops.scheduled.pc = "done")
        => (is_enabled /\ manual)

\* C38: when the presenter reports a primary click on a live notification
\* that has a default action (FocusApp, then DefaultAction for that id,
\* handled in that order), the DefaultAction event is handled while the
\* notification is still in the registry, so invoke_action(id, "default")
\* finds the notification and its action.
C38_DefaultActionFindsNotification ==
    \A k \in 1 .. Len(invoke_log) :
        invoke_log[k].sender = "DefaultAction" => invoke_log[k].exists

\* C33: in every interleaving of concurrent Notify and close calls (without
\* counter overflow), once a close signal has been sent for an id, that id
\* never re-enters the registry and no Notify that completes afterwards
\* inserts a notification under it: a Notify with replaces_id = i that races
\* with a close of i replaces the still-live entry or gets a fresh id.
C33_ClosedIdStaysClosed ==
    \A id \in Ids : CloseSignals(id) > 0 => id \notin Live

\* no Notify and no close call is in progress
Quiet == \A c \in RaceTasks : calls[c] = NoCall

\* C34: whenever no Notify or close call is in progress, after any
\* interleaving of concurrent Notify (fresh or replacing) and close calls, the
\* display order has no duplicate id and its set of ids is the set of
\* registry keys.
C34_DisplayOrderMatchesRegistry ==
    Quiet =>
        /\ \A p \in 1 .. Len(display_order), q \in 1 .. Len(display_order) :
              display_order[p] = display_order[q] => p = q
        /\ Range(display_order) = Live

\* how many times id became a new entry of the registry: the Show events sent
\* for it and the insertions whose Show is still to be sent
EntryCount(id) ==
    Cardinality({ k \in 1 .. Len(ui_chan) : ui_chan[k].type = "Show" /\ ui_chan[k].id = id })
    + Cardinality({ c \in RaceTasks :
          calls[c].op = "add" /\ calls[c].pc = "inserted" /\ calls[c].id = id
          /\ ~calls[c].flag })

\* the close calls for id that removed an entry and have yet to send
Removers(id) ==
    { c \in RaceTasks :
        calls[c].op = "close" /\ calls[c].pc = "removed" /\ calls[c].id = id
        /\ calls[c].flag }

UiCloses(id) ==
    Cardinality({ k \in 1 .. Len(ui_chan) : ui_chan[k].type = "Close" /\ ui_chan[k].id = id })

\* C35: when two or more close_notification calls for the same live id run
\* concurrently, exactly one of them removes the entry and sends the UI
\* Close(id) event and the close signal; the others send nothing.  Every
\* entry of the registry is closed by exactly one call: the entries an id has
\* had are as many as its close signals sent or about to be sent, plus the
\* live one, and each close signal comes with one UI Close.
C35_OneCloserWins ==
    \A id \in Ids :
        /\ EntryCount(id) =
              CloseSignals(id) + Cardinality(Removers(id))
              + (IF id \in Live THEN 1 ELSE 0)
        /\ UiCloses(id) = CloseSignals(id)

\* two close calls for the same id in progress at once, a bus call and a
\* socket dismiss: one has removed the entry, the other found none
C35_Witness ==
    \E c \in RaceTasks, d \in RaceTasks :
        /\ calls[c].op = "close" /\ calls[c].pc = "removed" /\ calls[c].flag
        /\ calls[d].op = "close" /\ calls[d].pc = "removed" /\ ~calls[d].flag
        /\ calls[c].id = calls[d].id
        /\ calls[c].reason = CloseCall /\ calls[d].reason = Dismissed
        /\ calls[c].id \in Entered

\* an urgency criterion that names urgency u, in any letter case
NamesUrgency(criteria, u) ==
    /\ criteria.urgency # << >>
    /\ \/ u = Low /\ criteria.urgency[1] \in {"low", "Low", "LOW"}
       \/ u = Normal /\ criteria.urgency[1] \in {"normal", "Normal", "NORMAL"}
       \/ u = Critical /\ criteria.urgency[1] \in {"critical", "Critical", "CRITICAL"}

\* criteria with no text pattern on the application name, summary or body
NoTextCriteria(criteria) ==
    criteria.app_name = << >> /\ criteria.summary = << >> /\ criteria.body = << >>

\* C31: find_matching_rule returns the first rule, in list order, all of whose
\* populated criteria match the notification, and None when no rule matches.
\* An urgency criterion equal, case-insensitively, to low, normal or critical
\* matches only notifications of that urgency; any other urgency string
\* matches every notification.  A category criterion never matches a
\* notification that has no category.
C31_FirstMatchInListOrder ==
    \A k \in 1 .. Len(match_log) :
        LET n == match_log[k].notification
            result == match_log[k].result
            hits == { j \in 1 .. Len(rules) : matches(rules[j].criteria, n) }
        IN /\ hits = {} => result = << >>
           /\ hits # {} =>
                 \E j \in hits : result = <<rules[j]>> /\ \A i \in hits : j <= i
           /\ result # << >> =>
                 /\ \A u \in Urgencies :
                       NamesUrgency(result[1].criteria, u) => n.urgency = u
                 /\ result[1].criteria.category # << >> => n.category # << >>
           /\ Len(rules) > 0 /\ NoTextCriteria(rules[1].criteria)
              /\ rules[1].criteria.category = << >> =>
                 IF \E u \in Urgencies : NamesUrgency(rules[1].criteria, u)
                 THEN (result = <<rules[1]>>)
                          <=> NamesUrgency(rules[1].criteria, n.urgency)
                 ELSE result = <<rules[1]>>

\* a notification without a category is given to a list whose first rule has
\* only a category criterion and whose second has an urgency name that is no
\* urgency: the second rule is returned
C31_Witness ==
    /\ Len(match_log) = 1
    /\ Len(rules) = 2
    /\ match_log[1].notification.category = << >>
    /\ NoTextCriteria(rules[1].criteria)
    /\ rules[1].criteria.urgency = << >>
    /\ rules[1].criteria.category # << >>
    /\ rules[2].criteria.urgency = <<"urgent">>
    /\ rules[2].criteria.category = << >>
    /\ match_log[1].result = <<rules[2]>>

====
